---- MODULE Spec2Model ----
(***************************************************************************)
(* protobuf_uml_diagram.py: the Diagram builder (from_file, to_file,       *)
(* build), the recursive mapping builder _build_mappings over the class    *)
(* level tables of Mappings, and the dot template generator                *)
(* _get_uml_template.                                                      *)
(*                                                                         *)
(* Text is modelled as a sequence of tokens: <<>> is the empty string,     *)
(* <<"pkg", "/", "c", ".proto">> is "pkg/c.proto".  None is modelled by    *)
(* the empty value of the type at hand (<<>> for a module, a path or a     *)
(* document, "" for a field's message_type).                               *)
(***************************************************************************)
EXTENDS Integers, Sequences, FiniteSets, TLC

(* ------------------------------------------------------------------ *)
(* Bounds of the model                                                 *)
(* ------------------------------------------------------------------ *)

\* Depth of the Python call stack available to _build_mappings
\* (sys.getrecursionlimit(), scaled down).
RecursionLimit == 4

\* Number of Diagram.build calls explored in one process.
MaxBuilds == 2

(* ------------------------------------------------------------------ *)
(* Generic helpers                                                     *)
(* ------------------------------------------------------------------ *)

Range(s) == {s[i] : i \in DOMAIN s}

\* str.replace(old, new) on a token sequence, old and new single tokens.
Replace(text, old, new) == [i \in DOMAIN text |-> IF text[i] = old THEN new ELSE text[i]]

\* str.replace(old, "") on a token sequence.
Remove(text, old) == SelectSeq(text, LAMBDA tok : tok # old)

(* ------------------------------------------------------------------ *)
(* FieldDescriptorProto.Type and the type-code table                   *)
(* ------------------------------------------------------------------ *)

\* FieldDescriptorProto.Type.items(): (text, number) pairs of the enum.
FieldDescriptorProtoType ==
    << << <<"TYPE_", "DOUBLE">>, 1 >>,   << <<"TYPE_", "FLOAT">>, 2 >>,
       << <<"TYPE_", "INT64">>, 3 >>,    << <<"TYPE_", "UINT64">>, 4 >>,
       << <<"TYPE_", "INT32">>, 5 >>,    << <<"TYPE_", "FIXED64">>, 6 >>,
       << <<"TYPE_", "FIXED32">>, 7 >>,  << <<"TYPE_", "BOOL">>, 8 >>,
       << <<"TYPE_", "STRING">>, 9 >>,   << <<"TYPE_", "GROUP">>, 10 >>,
       << <<"TYPE_", "MESSAGE">>, 11 >>, << <<"TYPE_", "BYTES">>, 12 >>,
       << <<"TYPE_", "UINT32">>, 13 >>,  << <<"TYPE_", "ENUM">>, 14 >>,
       << <<"TYPE_", "SFIXED32">>, 15 >>, << <<"TYPE_", "SFIXED64">>, 16 >>,
       << <<"TYPE_", "SINT32">>, 17 >>,  << <<"TYPE_", "SINT64">>, 18 >> >>

\* str.lower() on one token.
LowerToken(tok) ==
    CASE tok = "TYPE_" -> "type_"       [] tok = "DOUBLE" -> "double"
      [] tok = "FLOAT" -> "float"       [] tok = "INT64" -> "int64"
      [] tok = "UINT64" -> "uint64"     [] tok = "INT32" -> "int32"
      [] tok = "FIXED64" -> "fixed64"   [] tok = "FIXED32" -> "fixed32"
      [] tok = "BOOL" -> "bool"         [] tok = "STRING" -> "string"
      [] tok = "GROUP" -> "group"       [] tok = "MESSAGE" -> "message"
      [] tok = "BYTES" -> "bytes"       [] tok = "UINT32" -> "uint32"
      [] tok = "ENUM" -> "enum"         [] tok = "SFIXED32" -> "sfixed32"
      [] tok = "SFIXED64" -> "sfixed64" [] tok = "SINT32" -> "sint32"
      [] tok = "SINT64" -> "sint64"     [] OTHER -> tok

Lower(text) == [i \in DOMAIN text |-> LowerToken(text[i])]

\* {number: text.lower().replace("type_", "") for text, number in Type.items()}
TypeMappingItems ==
    [i \in DOMAIN FieldDescriptorProtoType |->
        [key |-> FieldDescriptorProtoType[i][2],
         value |-> Remove(Lower(FieldDescriptorProtoType[i][1]), "type_")]]

(* ------------------------------------------------------------------ *)
(* Python dicts: insertion-ordered sequences of [key, value] items     *)
(* ------------------------------------------------------------------ *)

Keys(d) == {d[i].key : i \in DOMAIN d}

HasKey(d, k) == k \in Keys(d)

\* d[k]; only evaluated when HasKey(d, k) (KeyError otherwise).
Get(d, k) == d[CHOOSE i \in DOMAIN d : d[i].key = k].value

\* The value d.update(items) leaves under key k of items: the last one given.
LastValue(items, k) ==
    items[CHOOSE i \in DOMAIN items :
            /\ items[i].key = k
            /\ \A j \in DOMAIN items : items[j].key = k => j <= i].value

\* The positions of items that bring a key d does not have, each key once,
\* in the order the keys first occur.
NewKeyPositions(d, items) ==
    SelectSeq([i \in DOMAIN items |-> i],
              LAMBDA i : /\ ~HasKey(d, items[i].key)
                         /\ \A j \in DOMAIN items : j < i => items[j].key # items[i].key)

\* d.update(items): d[k] = v for each item in turn, so the keys of d keep
\* their positions and the new keys follow in the order of items.
DictUpdate(d, items) ==
    [i \in DOMAIN d |->
        IF HasKey(items, d[i].key)
        THEN [key |-> d[i].key, value |-> LastValue(items, d[i].key)]
        ELSE d[i]]
    \o [n \in DOMAIN NewKeyPositions(d, items) |->
          [key |-> items[NewKeyPositions(d, items)[n]].key,
           value |-> LastValue(items, items[NewKeyPositions(d, items)[n]].key)]]

(* ------------------------------------------------------------------ *)
(* _get_message_mapping                                                *)
(* ------------------------------------------------------------------ *)

\* entry_index = 2, the first index _get_message_mapping hands out.
MappingFirstIndex == 2

\* _get_message_mapping with the counter advanced before it is used.
GetMessageMapping_CountFirst(types) ==
    [i \in DOMAIN types |-> [key |-> types[i].key, value |-> MappingFirstIndex + i]]

\* for _type, message in types.items(): message_mapping[_type] = entry_index;
\* entry_index += 1.  The keys of a dict are distinct, so the i-th key gets
\* the value the counter has after i - 1 increments.
GetMessageMapping(types) ==
    [i \in DOMAIN types |-> [key |-> types[i].key, value |-> MappingFirstIndex + (i - 1)]]

(* ------------------------------------------------------------------ *)
(* _get_uml_template                                                   *)
(*                                                                     *)
(* A message descriptor is [name, fields]; a field descriptor is       *)
(* [name, type, message_type] with message_type = "" for None.         *)
(* The document is the skeleton with its two regions: classes, the     *)
(* node blocks [index, label, fields], and relationships, the edges    *)
(* [this, that].  error names the exception that ended the call.       *)
(* ------------------------------------------------------------------ *)

NoMessage == ""

\* entry_index = 2, the first label the template's running counter writes.
TemplateFirstIndex == 2

\* The lookups one field performs all succeed.
FieldLookupsOk(_type, _field, type_mapping, message_mapping) ==
    /\ HasKey(type_mapping, _field.type)
    /\ _field.message_type # NoMessage =>
          /\ HasKey(message_mapping, _type)
          /\ HasKey(message_mapping, _field.message_type)

\* f"+ {_field.name}:{field_type}"
FieldLine(_field, type_mapping) ==
    [name |-> _field.name,
     type |-> IF _field.message_type # NoMessage
              THEN << _field.message_type >>
              ELSE Get(type_mapping, _field.type)]

\* The edge with its two ends taken the wrong way round.
Relationship_Reversed(_type, _field, message_mapping) ==
    [this |-> Get(message_mapping, _field.message_type),
     that |-> Get(message_mapping, _type)]

\* f"    {this_node}->{that_node}"
Relationship(_type, _field, message_mapping) ==
    [this |-> Get(message_mapping, _type),
     that |-> Get(message_mapping, _field.message_type)]

\* The lines of one node block: fields.append(...) for each field in turn.
FieldLines(message, type_mapping) ==
    [j \in DOMAIN message.fields |-> FieldLine(message.fields[j], type_mapping)]

\* The edges one type appends to relationships, in the order of its fields.
RelationshipsOf(_type, message, message_mapping) ==
    LET refs == SelectSeq(message.fields, LAMBDA f : f.message_type # NoMessage)
    IN [k \in DOMAIN refs |-> Relationship(_type, refs[k], message_mapping)]

\* relationships after the loop has handled the types from position i on.
RECURSIVE RelationshipsFrom(_, _, _)
RelationshipsFrom(types, i, message_mapping) ==
    IF i > Len(types) THEN << >>
    ELSE RelationshipsOf(types[i].key, types[i].value, message_mapping)
         \o RelationshipsFrom(types, i + 1, message_mapping)

\* f"""    {entry_index}[label = "{{{_type}|""" ... "}\"]\n": the block of the
\* i-th type, labelled by the running counter entry_index.
NodeBlock(types, i, type_mapping) ==
    [index |-> TemplateFirstIndex + (i - 1),
     label |-> types[i].key,
     fields |-> FieldLines(types[i].value, type_mapping)]

\* for _type, message in types.items(): ...; a failed lookup raises KeyError
\* and no document is returned.
GetUmlTemplate(types, type_mapping, message_mapping) ==
    IF \E i \in DOMAIN types : \E j \in DOMAIN types[i].value.fields :
          ~FieldLookupsOk(types[i].key, types[i].value.fields[j],
                          type_mapping, message_mapping)
    THEN [classes |-> << >>, relationships |-> << >>, error |-> "KeyError"]
    ELSE [classes |-> [i \in DOMAIN types |-> NodeBlock(types, i, type_mapping)],
          relationships |-> RelationshipsFrom(types, 1, message_mapping),
          error |-> ""]

(* ------------------------------------------------------------------ *)
(* _module and the importable compiled modules                         *)
(* ------------------------------------------------------------------ *)

\* import_module(proto.replace(".proto", "_pb2").replace("/", ".")): the name
\* of the module that is imported.
ModuleName(proto) == Replace(Replace(proto, ".proto", "_pb2"), "/", ".")

\* Path(p).stem: the final path component without its last suffix.
Stem(p) ==
    LET slashes == {i \in DOMAIN p : p[i] = "/"}
        first == IF slashes = {} THEN 1
                 ELSE (CHOOSE i \in slashes : \A j \in slashes : j <= i) + 1
        name == SubSeq(p, first, Len(p))
    IN IF Len(name) > 1 /\ name[Len(name)] = ".py"
       THEN SubSeq(name, 1, Len(name) - 1)
       ELSE name

\* The schema files of the model and an identifier no module answers to.
ProtoA == << "a", ".proto" >>
ProtoB == << "b", ".proto" >>
ProtoC == << "pkg", "/", "c", ".proto" >>
ProtoX == << "x", ".proto" >>
Protos == {ProtoA, ProtoB, ProtoC}

\* module.__file__
ModuleFile(proto) == Replace(proto, ".proto", "_pb2") \o << ".py" >>

\* Field and message descriptors the schema files are made of.
FieldId == [name |-> "id", type |-> 5, message_type |-> NoMessage]
FieldName == [name |-> "name", type |-> 9, message_type |-> NoMessage]
FieldRef(n, t) == [name |-> n, type |-> 11, message_type |-> t]

Item(message) == [key |-> message.name, value |-> message]

\* Messages the schema files declare.  "Inner" is declared by none of them at
\* top level: it stands for a message nested in another one (or a map entry),
\* which message_types_by_name does not list.
MsgA1 == Item([name |-> "A", fields |-> << FieldId >>])
MsgA2 == Item([name |-> "A", fields |-> << FieldName, FieldRef("b", "B") >>])
MsgB1 == Item([name |-> "B", fields |-> << FieldRef("a1", "A"), FieldRef("a2", "A") >>])
MsgB2 == Item([name |-> "B", fields |-> << FieldId >>])
MsgC1 == Item([name |-> "C", fields |-> << FieldRef("b", "B"), FieldRef("inner", "Inner") >>])

\* message_types_by_name of the three files, in declaration order.
MessageTypes ==
    { (ProtoA :> << MsgA1 >>) @@ (ProtoB :> << MsgB1 >>) @@ (ProtoC :> << MsgA2 >>),
      (ProtoA :> << MsgB1, MsgA1 >>) @@ (ProtoB :> << MsgB2 >>) @@ (ProtoC :> << >>),
      (ProtoA :> << MsgA2 >>) @@ (ProtoB :> << MsgB2, MsgC1 >>) @@ (ProtoC :> << MsgA1 >>),
      (ProtoA :> << MsgB2 >>) @@ (ProtoB :> << MsgA2, MsgB1 >>) @@ (ProtoC :> << MsgA1, MsgB2 >>) }

\* DESCRIPTOR.dependencies of one file: the names of the imported files.
DependencyLists(proto) ==
    CASE proto = ProtoA -> { << >>, << ProtoB >>, << ProtoB, ProtoC >>,
                             << ProtoC, ProtoB >>, << ProtoB, ProtoX >> }
      [] proto = ProtoB -> { << >>, << ProtoC >>, << ProtoA >> }
      [] proto = ProtoC -> { << >>, << ProtoA >>, << ProtoX >> }

Dependencies ==
    { d \in [Protos -> UNION {DependencyLists(p) : p \in Protos}] :
        \A p \in Protos : d[p] \in DependencyLists(p) }

\* The compiled modules of a process (sys.modules once imported), by name.
Universes ==
    { [m \in {ModuleName(p) : p \in Protos} |->
         LET p == CHOOSE q \in Protos : ModuleName(q) = m
         IN [message_types_by_name |-> t[p],
             dependencies |-> d[p],
             file |-> ModuleFile(p)]] :
      t \in MessageTypes, d \in Dependencies }

(* ------------------------------------------------------------------ *)
(* State                                                               *)
(* ------------------------------------------------------------------ *)

VARIABLES
    modules,            \* the compiled modules import_module can load
    proto_module,       \* Diagram._proto_module (name of the module, <<>> = None)
    rendered_filename,  \* Diagram._rendered_filename (<<>> = None)
    types,              \* Mappings.types (class attribute)
    type_mapping,       \* Mappings.type_mapping (class attribute)
    message_mapping,    \* Mappings.message_mapping (class attribute)
    stack,              \* frames of _build_mappings: [proto_file, dep]
    pc,                 \* position of Diagram.build
    mappings,           \* build's local mappings: bound once _build_mappings returned
    uml_template,       \* build's local uml_template (<<>> = not assigned)
    visited,            \* modules merged by the running traversal, in order
    written,            \* files the renderer has written
    result,             \* the last Diagram call and how it ended
    builds,             \* traversals started so far
    discovered,         \* type names in the order they were first merged
    previous            \* root and tables at the return of the previous traversal

Diagram == << proto_module, rendered_filename >>
Tables == << types, type_mapping, message_mapping >>
Locals == << stack, pc, mappings, uml_template, visited >>
History == << builds, discovered, previous >>

vars == << modules, Diagram, Tables, Locals, written, result, History >>

\* How a call ended: it returned, or it raised the exception named.
Returned(call) == [call |-> call, exception |-> ""]
Raised(call, exc) == [call |-> call, exception |-> exc]
Running(call) == [call |-> call, exception |-> "(running)"]

NoModule == << >>
NoPath == << >>
NoTemplate == << >>
NoPrevious == [root |-> NoModule, types |-> << >>, type_mapping |-> << >>]

Init ==
    /\ modules \in Universes
    /\ proto_module = NoModule
    /\ rendered_filename = NoPath
    /\ types = << >>
    /\ type_mapping = << >>
    /\ message_mapping = << >>
    /\ stack = << >>
    /\ pc = "idle"
    /\ mappings = "unbound"
    /\ uml_template = NoTemplate
    /\ visited = << >>
    /\ written = {}
    /\ result = Returned("Diagram")
    /\ builds = 0
    /\ discovered = << >>
    /\ previous = NoPrevious

(* ------------------------------------------------------------------ *)
(* Diagram.from_file, Diagram.to_file                                  *)
(* ------------------------------------------------------------------ *)

\* A call that raises exc before it changes anything.
Raise(call, exc) ==
    /\ result' = Raised(call, exc)
    /\ UNCHANGED << modules, Diagram, Tables, Locals, written, History >>

\* import_module finds the module.
Importable(name) == name \in DOMAIN modules

FromFile(proto_file) ==
    /\ pc = "idle"
    /\ IF proto_file = << >>
       THEN Raise("from_file", "ValueError: Missing proto file!")
       ELSE IF ~Importable(ModuleName(proto_file))
       THEN Raise("from_file", "ImportError")
       ELSE /\ proto_module' = ModuleName(proto_file)
            /\ result' = Returned("from_file")
            /\ UNCHANGED << modules, rendered_filename, Tables, Locals, written, History >>

ToFile(output) ==
    /\ pc = "idle"
    /\ IF output = NoPath
       THEN Raise("to_file", "ValueError: Missing output location!")
       ELSE IF proto_module = NoModule
       THEN Raise("to_file", "AttributeError")
       ELSE /\ rendered_filename' = output \o << "/" >> \o Stem(modules[proto_module].file)
            /\ result' = Returned("to_file")
            /\ UNCHANGED << modules, proto_module, Tables, Locals, written, History >>

(* ------------------------------------------------------------------ *)
(* _build_mappings                                                     *)
(* ------------------------------------------------------------------ *)

\* mappings.type_mapping.update({number: text...})
UpdateTypeMapping(tm) == DictUpdate(tm, TypeMappingItems)

\* types.setdefault(name, message) for each declared type: a name already in
\* the table keeps its earlier definition.
UpdateTypes_KeepFirst(t, message_types_by_name) ==
    [i \in DOMAIN DictUpdate(t, message_types_by_name) |->
        IF i <= Len(t) THEN t[i] ELSE DictUpdate(t, message_types_by_name)[i]]

\* A table that drops a name before it stores it again: a redeclared name
\* moves to the end.
UpdateTypes_MoveToEnd(t, message_types_by_name) ==
    SelectSeq(t, LAMBDA item : ~HasKey(message_types_by_name, item.key))
    \o DictUpdate(<< >>, message_types_by_name)

\* A table that merges a redeclared name: the fields of the new definition
\* are added to those it holds.
UpdateTypes_MergeFields(t, message_types_by_name) ==
    [i \in DOMAIN DictUpdate(t, message_types_by_name) |->
        IF i <= Len(t) /\ HasKey(message_types_by_name, t[i].key)
        THEN [key |-> t[i].key,
              value |-> [name |-> t[i].key,
                         fields |-> t[i].value.fields
                                    \o Get(message_types_by_name, t[i].key).fields]]
        ELSE DictUpdate(t, message_types_by_name)[i]]

\* mappings.types.update(proto_file.DESCRIPTOR.message_types_by_name)
UpdateTypes(t, message_types_by_name) == DictUpdate(t, message_types_by_name)

\* mappings.message_mapping.update(_get_message_mapping(mappings.types))
UpdateMessageMapping(mm, t) == DictUpdate(mm, GetMessageMapping(t))

\* Mappings(): the instance has no attributes of its own, so the tables a
\* top-level call works on are the class attributes.
NewMappings == [types |-> types, type_mapping |-> type_mapping,
                message_mapping |-> message_mapping]

\* The mappings argument of a recursive call: the caller's tables.
SharedMappings == [types |-> types, type_mapping |-> type_mapping,
                   message_mapping |-> message_mapping]

\* The names seen so far, followed by the keys of items not among them.
FirstSeen(seen, items) ==
    LET new == SelectSeq([i \in DOMAIN items |-> i],
                         LAMBDA i : /\ items[i].key \notin Range(seen)
                                    /\ \A j \in DOMAIN items :
                                          j < i => items[j].key # items[i].key)
    IN seen \o [n \in DOMAIN new |-> items[new[n]].key]

\* The body of one call before its loop over the dependencies, on tables m.
Merge(m, proto_file) ==
    /\ type_mapping' = UpdateTypeMapping(m.type_mapping)
    /\ LET updated == UpdateTypes(m.types, modules[proto_file].message_types_by_name)
       IN /\ types' = updated
          /\ message_mapping' = UpdateMessageMapping(m.message_mapping, updated)
    /\ visited' = Append(visited, proto_file)
    /\ discovered' = FirstSeen(discovered, modules[proto_file].message_types_by_name)

Top == stack[Len(stack)]

HasNextDep == Top.dep <= Len(modules[Top.proto_file].dependencies)

NextDep == ModuleName(modules[Top.proto_file].dependencies[Top.dep])

\* build is left, by return or by an exception: its frames and locals go.
Leave(outcome) ==
    /\ stack' = << >>
    /\ pc' = "idle"
    /\ mappings' = "unbound"
    /\ uml_template' = NoTemplate
    /\ visited' = << >>
    /\ result' = outcome

(* ------------------------------------------------------------------ *)
(* Diagram.build                                                       *)
(* ------------------------------------------------------------------ *)

\* build without its check of self._proto_module: _build_mappings(None)
\* refreshes the type-code table and fails on None.DESCRIPTOR.
Build_Unchecked ==
    /\ pc = "idle"
    /\ IF proto_module = NoModule
       THEN /\ type_mapping' = UpdateTypeMapping(type_mapping)
            /\ result' = Raised("build", "AttributeError")
            /\ UNCHANGED << modules, Diagram, types, message_mapping, Locals,
                            written, History >>
       ELSE IF rendered_filename = NoPath
       THEN Raise("build", "ValueError: No output location!")
       ELSE /\ builds < MaxBuilds
            /\ builds' = builds + 1
            /\ Merge(NewMappings, proto_module)
            /\ stack' = << [proto_file |-> proto_module, dep |-> 1] >>
            /\ pc' = "building"
            /\ result' = Running("build")
            /\ previous' = IF previous.root = proto_module THEN previous ELSE NoPrevious
            /\ UNCHANGED << modules, Diagram, mappings, uml_template, written >>

\* build up to its call of _build_mappings(self._proto_module), and that
\* call up to its loop over the dependencies.
Build ==
    /\ pc = "idle"
    /\ IF proto_module = NoModule
       THEN Raise("build", "ValueError: No Protobuf Python module!")
       ELSE IF rendered_filename = NoPath
       THEN Raise("build", "ValueError: No output location!")
       ELSE /\ builds < MaxBuilds
            /\ builds' = builds + 1
            /\ Merge(NewMappings, proto_module)
            /\ stack' = << [proto_file |-> proto_module, dep |-> 1] >>
            /\ pc' = "building"
            /\ result' = Running("build")
            /\ previous' = IF previous.root = proto_module THEN previous ELSE NoPrevious
            /\ UNCHANGED << modules, Diagram, mappings, uml_template, written >>

\* The loop with a visited set: a dependency merged before is passed over.
Recurse_VisitedOnce ==
    /\ pc = "building"
    /\ HasNextDep
    /\ Importable(NextDep)
    /\ IF NextDep \in Range(visited)
       THEN /\ stack' = [stack EXCEPT ![Len(stack)].dep = @ + 1]
            /\ UNCHANGED << Tables, visited, discovered >>
       ELSE /\ Len(stack) < RecursionLimit
            /\ Merge(SharedMappings, NextDep)
            /\ stack' = Append([stack EXCEPT ![Len(stack)].dep = @ + 1],
                               [proto_file |-> NextDep, dep |-> 1])
    /\ UNCHANGED << modules, Diagram, pc, mappings, uml_template, written,
                    result, builds, previous >>

\* for _dep in dependencies: _build_mappings(_module(_dep.name), mappings),
\* up to the loop of the inner call.
Recurse ==
    /\ pc = "building"
    /\ HasNextDep
    /\ Importable(NextDep)
    /\ Len(stack) < RecursionLimit
    /\ Merge(SharedMappings, NextDep)
    /\ stack' = Append([stack EXCEPT ![Len(stack)].dep = @ + 1],
                       [proto_file |-> NextDep, dep |-> 1])
    /\ UNCHANGED << modules, Diagram, pc, mappings, uml_template, written,
                    result, builds, previous >>

\* The loop with the import error swallowed: the dependency is passed over.
LoadFails_Skipped ==
    /\ pc = "building"
    /\ HasNextDep
    /\ ~Importable(NextDep)
    /\ stack' = [stack EXCEPT ![Len(stack)].dep = @ + 1]
    /\ UNCHANGED << modules, Diagram, Tables, pc, mappings, uml_template, visited,
                    written, result, History >>

\* _module(_dep.name) raises: import_module finds no such module.
LoadFails ==
    /\ pc = "building"
    /\ HasNextDep
    /\ ~Importable(NextDep)
    /\ Leave(Raised("build", "ImportError"))
    /\ UNCHANGED << modules, Diagram, Tables, written, History >>

\* The call would exceed the interpreter's recursion limit.
RecursionFails ==
    /\ pc = "building"
    /\ HasNextDep
    /\ Importable(NextDep)
    /\ Len(stack) >= RecursionLimit
    /\ Leave(Raised("build", "RecursionError"))
    /\ UNCHANGED << modules, Diagram, Tables, written, History >>

\* return mappings
Return ==
    /\ pc = "building"
    /\ ~HasNextDep
    /\ stack' = SubSeq(stack, 1, Len(stack) - 1)
    /\ IF Len(stack) = 1
       THEN pc' = "mapped" /\ mappings' = "Mappings"
       ELSE UNCHANGED << pc, mappings >>
    /\ UNCHANGED << modules, Diagram, Tables, uml_template, visited, written,
                    result, History >>

\* uml_template = _get_uml_template(types=..., type_mapping=..., message_mapping=...)
Template ==
    /\ pc = "mapped"
    /\ LET t == GetUmlTemplate(types, type_mapping, message_mapping)
       IN IF t.error # ""
          THEN Leave(Raised("build", t.error))
          ELSE /\ pc' = "templated"
               /\ uml_template' = << [classes |-> t.classes,
                                      relationships |-> t.relationships] >>
               /\ UNCHANGED << stack, mappings, visited, result >>
    /\ previous' = [root |-> proto_module, types |-> types, type_mapping |-> type_mapping]
    /\ UNCHANGED << modules, Diagram, Tables, written, builds, discovered >>

\* src.render(filename=self._rendered_filename, view=False, cleanup=True)
Render ==
    /\ pc = "templated"
    /\ written' = written \cup { rendered_filename \o << ".png" >> }
    /\ Leave(Returned("build"))
    /\ UNCHANGED << modules, Diagram, Tables, History >>

\* The renderer fails (no dot executable, unwritable destination).
RenderFails ==
    /\ pc = "templated"
    /\ Leave(Raised("build", "RenderError"))
    /\ UNCHANGED << modules, Diagram, Tables, written, History >>

(* ------------------------------------------------------------------ *)
(* The dependency graph of the loaded modules                          *)
(* ------------------------------------------------------------------ *)

\* The importable modules a module's DESCRIPTOR.dependencies name.
Imports(m) ==
    { ModuleName(d) : d \in Range(modules[m].dependencies) } \cap DOMAIN modules

RECURSIVE ReachFrom(_)
ReachFrom(S) ==
    LET N == S \cup UNION { Imports(m) : m \in S }
    IN IF N = S THEN S ELSE ReachFrom(N)

\* The dependency closure of root: root and every transitively imported module.
Closure(root) == ReachFrom({root})

\* Some module of root's closure imports itself, directly or not.
Cyclic(root) == \E m \in Closure(root) : m \in ReachFrom(Imports(m))

\* Every dependency named in root's closure can be imported.
Loadable(root) ==
    \A m \in Closure(root) : \A d \in Range(modules[m].dependencies) :
        Importable(ModuleName(d))

\* The type names the modules of root's closure declare.
ClosureTypeNames(root) ==
    UNION { Keys(modules[m].message_types_by_name) : m \in Closure(root) }

\* The arguments the callers pass.
ProtoArguments == {ProtoA, ProtoB, ProtoX, << >>}
OutputArguments == { NoPath, << "out" >> }

Next ==
    \/ \E proto_file \in ProtoArguments : FromFile(proto_file)
    \/ \E output \in OutputArguments : ToFile(output)
    \/ Build
    \/ Recurse
    \/ LoadFails
    \/ RecursionFails
    \/ Return
    \/ Template
    \/ Render
    \/ RenderFails

Spec == Init /\ [][Next]_vars

\* build runs to its end once called: the code is sequential.
BuildSteps == Recurse \/ LoadFails \/ RecursionFails \/ Return \/ Template
              \/ Render \/ RenderFails

\* The traversal follows the dependencies alone, so its termination is checked
\* on every dependency graph with the messages of one assignment.
LiveInit ==
    /\ Init
    /\ \A p \in Protos :
          modules[ModuleName(p)].message_types_by_name
             = (IF p = ProtoA THEN << MsgA1 >> ELSE IF p = ProtoB THEN << MsgB1 >> ELSE << MsgA2 >>)

LiveSpec == LiveInit /\ [][Next]_vars /\ WF_vars(BuildSteps)

(* ------------------------------------------------------------------ *)
(* Properties                                                          *)
(* ------------------------------------------------------------------ *)

\* The document build holds once _get_uml_template has returned.
Document == uml_template[1]

\* The node blocks of the document labelled name.
BlocksOf(name) == { i \in DOMAIN Document.classes : Document.classes[i].label = name }

\* The module of the running traversal that was merged last among those
\* declaring name.
LastDeclaring(name) ==
    LET at == { i \in DOMAIN visited :
                  name \in Keys(modules[visited[i]].message_types_by_name) }
    IN visited[CHOOSE i \in at : \A j \in at : j <= i]

\* The field lines a message descriptor is displayed with.
DisplayOf(message) ==
    [j \in DOMAIN message.fields |->
        [name |-> message.fields[j].name,
         type |-> IF message.fields[j].message_type # NoMessage
                  THEN << message.fields[j].message_type >>
                  ELSE Get(type_mapping, message.fields[j].type)]]

\* C1: once _build_mappings(root) and _get_uml_template have returned, every
\* type name declared in root's dependency closure labels exactly one node
\* block, and that block shows the fields of the definition merged last.
C1_EveryTypeOneBlock ==
    pc = "templated" =>
        \A name \in ClosureTypeNames(proto_module) :
            /\ Cardinality(BlocksOf(name)) = 1
            /\ \A i \in BlocksOf(name) :
                 Document.classes[i].fields =
                    DisplayOf(Get(modules[LastDeclaring(name)].message_types_by_name, name))

\* Two modules of the closure declare the same name with different fields,
\* and the document has been generated.
C1_Witness ==
    /\ pc = "templated"
    /\ ~Cyclic(proto_module)
    /\ \E m1 \in Closure(proto_module), m2 \in Closure(proto_module) :
         \E name \in Keys(modules[m1].message_types_by_name)
                     \cap Keys(modules[m2].message_types_by_name) :
            Get(modules[m1].message_types_by_name, name)
               # Get(modules[m2].message_types_by_name, name)

\* The (type, field) positions of the type table holding a message-typed field.
MessageFields ==
    { p \in UNION { { << i, j >> : j \in DOMAIN types[i].value.fields } : i \in DOMAIN types } :
        types[p[1]].value.fields[p[2]].message_type # NoMessage }

FieldAt(p) == types[p[1]].value.fields[p[2]]

\* The edge the field at position p is to be drawn with.
EdgeOf(p) == [this |-> Get(message_mapping, types[p[1]].key),
              that |-> Get(message_mapping, FieldAt(p).message_type)]

\* C2: the document has one edge per message-typed field, from the index of
\* the owning type to the index of the referenced type's name, the field is
\* displayed with that name, and a primitive field gives no edge; the
\* generator fails with a lookup error only when a referenced name has no index.
C2_OneEdgePerMessageField ==
    /\ pc = "templated" =>
         /\ Len(Document.relationships) = Cardinality(MessageFields)
         /\ \A p \in MessageFields :
              /\ Cardinality({ k \in DOMAIN Document.relationships :
                                 Document.relationships[k] = EdgeOf(p) })
                  = Cardinality({ q \in MessageFields : EdgeOf(q) = EdgeOf(p) })
              /\ Document.classes[p[1]].fields[p[2]].type = << FieldAt(p).message_type >>
              /\ Document.classes[p[1]].fields[p[2]].type # << "message" >>
    /\ result = Raised("build", "KeyError") =>
         \E p \in MessageFields : ~HasKey(message_mapping, FieldAt(p).message_type)

\* A document with two edges between different nodes and a primitive field.
C2_Witness ==
    /\ pc = "templated"
    /\ Len(Document.relationships) >= 2
    /\ \E k \in DOMAIN Document.relationships :
         Document.relationships[k].this # Document.relationships[k].that
    /\ \E i \in DOMAIN types : \E j \in DOMAIN types[i].value.fields :
         types[i].value.fields[j].message_type = NoMessage

\* C3: build called with no module loaded raises the missing-input error and
\* leaves the three tables as they were, starts no traversal and writes no file.
C3_BuildWithoutModule ==
    [][ (Build /\ proto_module = NoModule) =>
            /\ result' = Raised("build", "ValueError: No Protobuf Python module!")
            /\ UNCHANGED << types, type_mapping, message_mapping >>
            /\ UNCHANGED << pc, stack, mappings, uml_template, written >> ]_vars

\* build has been refused for want of a module.
C3_Witness ==
    /\ proto_module = NoModule
    /\ result = Raised("build", "ValueError: No Protobuf Python module!")

\* C4: a dependency that cannot be imported ends build with the import error:
\* _build_mappings has returned no mapping, no template is generated, the
\* renderer is not called and no file is written.
C4_LoadErrorPropagates ==
    /\ [][ (pc = "building" /\ HasNextDep /\ ~Importable(NextDep)) =>
             result' = Raised("build", "ImportError") ]_vars
    /\ [][ result' = Raised("build", "ImportError") =>
             /\ mappings = "unbound" /\ mappings' = "unbound"
             /\ uml_template = NoTemplate /\ uml_template' = NoTemplate
             /\ pc' = "idle"
             /\ written' = written ]_vars

\* build was ended by a failed import after at least two modules were merged.
C4_Witness ==
    /\ result = Raised("build", "ImportError")
    /\ Len(types) >= 2

\* C5: the index of the k-th type name ever merged is k + 1, so indices start
\* at 2, and no step changes the index a name has.
C5_IndicesStable ==
    /\ [] ( /\ Keys(message_mapping) = Range(discovered)
            /\ \A k \in DOMAIN discovered :
                 Get(message_mapping, discovered[k]) = k + 1
            /\ \A k \in DOMAIN message_mapping : message_mapping[k].value >= 2 )
    /\ [][ \A name \in Keys(message_mapping) :
             /\ HasKey(message_mapping', name)
             /\ Get(message_mapping', name) = Get(message_mapping, name) ]_vars

\* A traversal that has merged a module twice and a name declared twice with
\* different fields, with two indices assigned.
C5_Witness ==
    /\ pc = "building"
    /\ Len(visited) > Cardinality(Range(visited))
    /\ Len(message_mapping) >= 2
    /\ \E i \in DOMAIN visited, j \in DOMAIN visited :
         \E name \in Keys(modules[visited[i]].message_types_by_name)
                     \cap Keys(modules[visited[j]].message_types_by_name) :
            Get(modules[visited[i]].message_types_by_name, name)
               # Get(modules[visited[j]].message_types_by_name, name)

\* C6: a second traversal of the same root, with no traversal of another root
\* between the two, returns a type table and a type-code table holding the
\* items the first one returned.
C6_SecondCallSameTables ==
    (pc = "mapped" /\ previous.root = proto_module) =>
        /\ Range(types) = Range(previous.types)
        /\ Range(type_mapping) = Range(previous.type_mapping)

\* The second of two traversals of one root has returned.
C6_Witness ==
    /\ pc = "mapped"
    /\ previous.root = proto_module
    /\ Len(types) >= 2
    /\ Len(visited) >= 2

\* The number of import paths from root m into its closure, m's own included:
\* the calls a traversal without a visited set makes on an acyclic graph.
RECURSIVE ImportPaths(_)
RECURSIVE ImportPathsOf(_, _)
ImportPathsOf(dependencies, i) ==
    IF i > Len(dependencies) THEN 0
    ELSE ImportPaths(ModuleName(dependencies[i])) + ImportPathsOf(dependencies, i + 1)
ImportPaths(m) == 1 + ImportPathsOf(modules[m].dependencies, 1)

\* C7: the traversal has no visited set.  On an acyclic graph whose files all
\* load it returns, having merged a module once per import path; on a graph
\* with a cycle it never returns a mapping, and only such a graph exhausts
\* the call stack.
C7_TerminatesIffAcyclic ==
    /\ [] ( pc = "mapped" =>
              /\ ~Cyclic(proto_module)
              /\ Len(visited) = ImportPaths(proto_module) )
    /\ [] ( result = Raised("build", "RecursionError") => Cyclic(proto_module) )
    /\ [] ( (pc = "building" /\ Cyclic(proto_module)) => mappings = "unbound" )
    /\ ( (pc = "building" /\ ~Cyclic(proto_module) /\ Loadable(proto_module))
            ~> pc = "mapped" )

\* A traversal of a graph where a shared dependency is reached twice has returned.
C7_Witness ==
    /\ pc = "mapped"
    /\ Len(visited) > Cardinality(Range(visited))

\* C8: when _get_uml_template runs, the position of each type in the type
\* table, counted from 2, is its NodeIndexTable entry; so each node block is
\* labelled with its type's entry, and each edge joins the block of a type to
\* the block of a type one of its fields is displayed with.
C8_CounterEqualsIndex ==
    /\ pc = "mapped" =>
         \A i \in DOMAIN types :
            /\ HasKey(message_mapping, types[i].key)
            /\ Get(message_mapping, types[i].key) = i + 1
    /\ pc = "templated" =>
         /\ \A i \in DOMAIN Document.classes :
              Get(message_mapping, Document.classes[i].label) = Document.classes[i].index
         /\ \A k \in DOMAIN Document.relationships :
              \E i \in DOMAIN Document.classes, j \in DOMAIN Document.classes :
                 /\ Document.classes[i].index = Document.relationships[k].this
                 /\ Document.classes[j].index = Document.relationships[k].that
                 /\ \E f \in DOMAIN Document.classes[i].fields :
                      Document.classes[i].fields[f].type = << Document.classes[j].label >>

\* A document with an edge, generated by a later build of the process from
\* tables that also hold types of an earlier build.
C8_Witness ==
    /\ pc = "templated"
    /\ builds >= 2
    /\ Keys(types) # ClosureTypeNames(proto_module)
    /\ Len(Document.relationships) >= 1

\* C9: the type table a top-level call returns holds exactly the types
\* declared in the dependency closure of its root.
C9_TablesPerTraversal ==
    pc = "mapped" => Keys(types) = ClosureTypeNames(proto_module)

MissingInputErrors ==
    { "ValueError: Missing proto file!", "ValueError: Missing output location!",
      "ValueError: No Protobuf Python module!", "ValueError: No output location!" }

\* C10: a to_file or build call that fails for want of an input fails with
\* the descriptive missing-input error, and build goes on to the traversal
\* and the renderer only with a module loaded and an output location set.
C10_MissingInputFailsFast ==
    /\ (result.call = "to_file" /\ result.exception # "") =>
          result.exception \in MissingInputErrors
    /\ (result.call = "build" /\ (proto_module = NoModule \/ rendered_filename = NoPath)) =>
          result.exception \in MissingInputErrors
    /\ pc # "idle" => (proto_module # NoModule /\ rendered_filename # NoPath)

====
